---- MODULE Spec2Model ----
(***************************************************************************)
(* Score-sheet repository and dance-ladder aggregation of rcj-go.          *)
(*                                                                         *)
(* Store part (Spec): the committed tables score_sheets and                *)
(* score_sheet_sections, and a set of callers running FetchScoreSheet,     *)
(* CreateScoreSheet and UpdateScoreSheet of api/store/cockroach.  A run of  *)
(* a transaction closure is one step, and so are its commit and each       *)
(* errgroup task of a fetch outside a transaction.  The database is        *)
(* serializable: a transaction works on the snapshot taken when it         *)
(* (re)starts and commits only if the rows it read or wrote are unchanged. *)
(*                                                                         *)
(* Ladder part (SpecLadder): FetchDanceLadders as a function of the rows   *)
(* its two queries return.                                                 *)
(***************************************************************************)
EXTENDS Integers, Sequences, FiniteSets, TLC

\* ------------------------------------------------------------------ bounds
MaxCalls == 2      \* calls issued in one behaviour
MaxRetries == 1    \* serialization failures not caused by a conflicting commit
MaxFaults == 1     \* statements that fail because the store is unavailable
MaxRound == 2      \* rounds a ladder's score rows span: 0 (interview) .. MaxRound
MaxRows == 2       \* score rows (rounds scored) of one team

\* ------------------------------------------------------------ fixed tables
Procs == {"p1", "p2"}

\* teams.id, and score_sheet_template_sections rows: id -> template, order
Teams == {"t1", "t2"}
TemplateSections ==
  { [id |-> "a", template |-> "T1", display_order |-> 0],
    [id |-> "b", template |-> "T1", display_order |-> 1],
    [id |-> "c", template |-> "T2", display_order |-> 0] }
Templates == {ts.template : ts \in TemplateSections}
SectionIds == {ts.id : ts \in TemplateSections}
SectionsOf(t) == {ts.id : ts \in {x \in TemplateSections : x.template = t}}
DisplayOrder(s) == (CHOOSE ts \in TemplateSections : ts.id = s).display_order

\* score_sheets ids gen_random_uuid() can come to hand out: the seeded sheet's,
\* and one for every run of a create closure.
MaxIds == MaxCalls + MaxRetries + 1
SheetIds == 1..MaxIds
MaxSecs == 1 + 1                  \* longest section list a request carries
RowIds == 1..(MaxIds * MaxSecs)   \* score_sheet_sections ids

\* ------------------------------------------------------------------ errors
ErrNoRows == "sql: no rows in result set"
ErrStore == "store error"
ErrFK == "foreign key violation"
ErrMutator == "mutator error"
ErrPanic == "nil pointer dereference"
ErrRetry == "pq: restart transaction (SQLSTATE 40001)"
WrapFetch(e) == <<"Error fetching", e>>

\* ------------------------------------------------- numeric representations
\* An intermediate result that is used more than once is bound as the element
\* of a singleton set, so that it is computed once.
\* A DECIMAL(10,5) column holds an integer number of 1e-5 units.
Tenth == 1 * 10000
Half == 5 * 10000
One == 10 * 10000

RECURSIVE Pow2(_)
Pow2(k) == IF k = 0 THEN 1 ELSE 2 * Pow2(k - 1)

F32Min == Pow2(23)   \* least 24-bit mantissa
F32Max == Pow2(24)

\* n units = n / (3125 * 32).  Double until the quotient by 3125 has 24 bits:
\* the result stands for (q + r/3125) * 2^-(k+5).
RECURSIVE F32Scale(_, _, _)
F32Scale(q, r, k) ==
  IF q >= F32Min THEN [q |-> q, r |-> r, k |-> k]
  ELSE CHOOSE s \in { F32Scale(d[1], d[2], k + 1) :
                        d \in {<<2 * q + ((2 * r) \div 3125), (2 * r) % 3125>>} } : TRUE

\* strconv.ParseFloat(s, 32): the nearest float32, as mantissa m and k with
\* value m * 2^-(k+5); exact iff nothing was rounded away.
ParseFloat32(n) ==
  CHOOSE f \in
    { LET up == IF 2 * s.r > 3125 THEN 1 ELSE 0
          m == s.q + up
      IN IF m = F32Max THEN [m |-> F32Min, k |-> s.k - 1, exact |-> s.r = 0]
         ELSE [m |-> m, k |-> s.k, exact |-> s.r = 0] :
      s \in {F32Scale(n \div 3125, n % 3125, 0)} } : TRUE

\* m * 3125 / 2^k by five multiplications by 5 of (q + r/2^k).
RECURSIVE Times5(_, _, _, _)
Times5(q, r, d, i) ==
  IF i = 0 THEN [q |-> q, r |-> r]
  ELSE CHOOSE t \in { Times5(x[1], x[2], d, i - 1) :
                        x \in {<<5 * q + ((5 * r) \div d), (5 * r) % d>>} } : TRUE

\* The 1e-5 units a DECIMAL(10,5) column stores for the float m * 2^-(k+5)
\* (rounded half away from zero).
RoundToDecimal5(f) ==
  CHOOSE v \in
    { LET t == Times5(f.m \div d, f.m % d, d, 5)
      IN t.q + (IF 2 * t.r >= d THEN 1 ELSE 0) : d \in {Pow2(f.k)} } : TRUE

\* An in-memory float64 (ScoreSheetSection.Value) is kept as the 1e-5 units it
\* rounds to when written to a DECIMAL(10,5) column, and whether it is exactly
\* the double nearest to that decimal.
Float64Of(n) == [d5 |-> n, exact |-> TRUE]

\* Scan of a DECIMAL(10,5) into `Value float32`, widened by float64(...).
ScanFloat32(n) ==
  IF n = 0 THEN [d5 |-> 0, exact |-> TRUE]
  ELSE CHOOSE v \in { [d5 |-> RoundToDecimal5(f), exact |-> f.exact] :
                        f \in {ParseFloat32(n)} } : TRUE

\* What the database stores when handed the float64 v.
ToDecimal5(v) == v.d5


\* ------------------------------------------------------- in-memory objects
\* Optional values (a nil pointer, a nil error) are sequences of length <= 1.
NoErr == <<>>
NoSheet == <<>>
Result(sheet, err) == [sheet |-> sheet, err |-> err]
NoResult == [sheet |-> <<>>, err |-> <<"pending">>]

\* json.Marshal of []scoreSheetTiming and its Unmarshal: the text is kept as
\* the flat list of the strings it carries.
RECURSIVE MarshalTimings(_)
MarshalTimings(ts) ==
  IF ts = <<>> THEN <<>>
  ELSE <<Head(ts).Name, Head(ts).Value>> \o MarshalTimings(Tail(ts))

RECURSIVE UnmarshalTimings(_)
UnmarshalTimings(js) ==
  IF Len(js) < 2 THEN <<>>
  ELSE <<[Name |-> js[1], Value |-> js[2]]>> \o UnmarshalTimings(SubSeq(js, 3, Len(js)))

\* rcjpb.ScoreSheet as FetchScoreSheet builds it from the two query results.
MkSheet(id, hdr, rows) ==
  [ Id |-> id,
    ScoreSheetTemplateId |-> hdr.template,
    DivisionId |-> hdr.division,
    Team |-> hdr.team,
    Author |-> hdr.author,
    Round |-> hdr.round,
    Comments |-> hdr.comments,
    Timings |-> UnmarshalTimings(hdr.timings),
    Sections |-> rows ]

\* One fetched section row: dbScoreSheetSection turned into ScoreSheetSection.
MkSection(r, row) ==
  [Id |-> r, SectionId |-> row.section, Value |-> ScanFloat32(row.value)]

\* ---------------------------------------------------------------- requests
Timing1 == <<[Name |-> "run", Value |-> "1"]>>

\* The object a create mutator leaves behind (proto.Merge of the request).
SectionLists == { <<"a", "b">>, <<"a">>, <<"a", "zz">> }
CreateReqs ==
  { [fail |-> FALSE, team |-> "t1", template |-> "T1", division |-> "d1", author |-> "u1",
     round |-> 1, comments |-> "c0", timings |-> <<>>, sections |-> sl, value |-> Tenth] :
      sl \in SectionLists }
  \cup
  { [fail |-> TRUE, team |-> "t1", template |-> "T1", division |-> "d1", author |-> "u1",
     round |-> 1, comments |-> "c0", timings |-> <<>>, sections |-> <<>>, value |-> 0] }

NewSheet(req) ==
  [ Id |-> 0,
    ScoreSheetTemplateId |-> req.template,
    DivisionId |-> req.division,
    Team |-> req.team,
    Author |-> req.author,
    Round |-> req.round,
    Comments |-> req.comments,
    Timings |-> req.timings,
    Sections |-> [i \in 1..Len(req.sections) |->
                   [Id |-> 0, SectionId |-> req.sections[i], Value |-> Float64Of(req.value)]] ]

\* Update mutators: "set" is the RPC handler's (team, timings, comments and the
\* section list are overwritten from the request); "bump" adds 0.5 to every
\* fetched value and refuses once a value has reached BumpCap; "fail" refuses;
\* "rewrite" overwrites the id, division, template, author, round and comments
\* of the object and leaves its team, timings and sections as fetched.
BumpCap == One
HeaderEdit == [team |-> "t2", comments |-> "c1", timings |-> Timing1]
HeaderKeep == [team |-> "t1", comments |-> "c0", timings |-> <<>>]
HeaderRewrite == [division |-> "d2", template |-> "T2", author |-> "u2", comments |-> "c2"]
SetLists ==
  {<<[Id |-> 1, Value |-> Float64Of(Half)], [Id |-> 2, Value |-> Float64Of(Half)]>>}
  \cup { <<[Id |-> i, Value |-> Float64Of(Half)]>> : i \in {0, MaxSecs + 1} }
UpdateMuts ==
  { [kind |-> "set", hdr |-> HeaderEdit, sections |-> sl] : sl \in SetLists }
  \cup { [kind |-> "bump", hdr |-> HeaderKeep, sections |-> <<>>],
         [kind |-> "fail", hdr |-> HeaderKeep, sections |-> <<>>],
         [kind |-> "rewrite", hdr |-> HeaderKeep, sections |-> <<>>] }

MutatorFails(mut, sheet) ==
  \/ mut.kind = "fail"
  \/ /\ mut.kind = "bump"
     /\ \E i \in 1..Len(sheet.Sections) : sheet.Sections[i].Value.d5 >= BumpCap

Mutate(mut, sheet) ==
  IF mut.kind = "set"
  THEN [sheet EXCEPT !.Team = mut.hdr.team,
                     !.Timings = mut.hdr.timings,
                     !.Comments = mut.hdr.comments,
                     !.Sections = [i \in 1..Len(mut.sections) |->
                                    [Id |-> mut.sections[i].Id,
                                     SectionId |-> "",
                                     Value |-> mut.sections[i].Value]]]
  ELSE IF mut.kind = "rewrite"
  THEN [sheet EXCEPT !.Id = 0,
                     !.DivisionId = HeaderRewrite.division,
                     !.ScoreSheetTemplateId = HeaderRewrite.template,
                     !.Author = HeaderRewrite.author,
                     !.Round = @ + 1,
                     !.Comments = HeaderRewrite.comments]
  ELSE [sheet EXCEPT !.Sections = [i \in 1..Len(@) |->
                                    [@[i] EXCEPT !.Value.d5 = @ + Half]]]


\* ------------------------------------------------------------------- state
VARIABLES
  sheets,    \* committed score_sheets: id -> row
  secs,      \* committed score_sheet_sections: id -> row
  nextId,    \* next score_sheets id (never reused, also after a rollback)
  nextRow,   \* next score_sheet_sections id
  calls,     \* calls issued so far
  pc,        \* where each caller stands
  op,        \* the call a caller runs: kind, id, req
  tx,        \* its open transaction
  obj,       \* the closure's scoreSheet
  sid,       \* CreateScoreSheet's scoreSheetID
  fq,        \* the running FetchScoreSheet: both tasks' state and results
  ret,       \* what the call returned
  att,       \* serialization failures met so far with no conflicting commit
  faults,    \* statements failed so far because the store was unavailable
  note,      \* per call: what happened in it (observation only)
  hist,      \* every state of every sheet that was ever committed
  serial,    \* the tables as the committed calls leave them run one at a time
  lteams,    \* ladder: the rows of the teams query
  lscores,   \* ladder: the rows of the scores query
  ltable,    \* ladder: the score sheets the scores query read
  lres,      \* ladder: what FetchDanceLadders returned
  lprev,     \* ladder: what the call before returned
  fcall,     \* fan-out: the function that is running, NoFan if none
  ftask,     \* fan-out: where each of the two tasks is
  fwrites,   \* fan-out: the assignments made to the function's variables
  fmutex,    \* fan-out: the task holding the function's mutex, 0 if free
  fgroup,    \* fan-out: the errgroup: its first error, its context cancelled
  fret,      \* fan-out: what the function returned
  flog,      \* fan-out: the errors the tasks returned, in order
  fbad       \* fan-out: a mutex was unlocked by a task not holding it

storeVars == <<sheets, secs, nextId, nextRow, calls, pc, op, tx, obj, sid, fq, ret, att,
               faults, note, hist, serial>>
ladderVars == <<lteams, lscores, ltable, lres, lprev>>
fanVars == <<fcall, ftask, fwrites, fmutex, fgroup, fret, flog, fbad>>
vars == <<storeVars, ladderVars, fanVars>>

\* Whether a statement may fail now, and the count after it did or did not.
Fails == {FALSE} \cup {f \in {TRUE} : faults < MaxFaults}
Count(f) == IF f THEN 1 ELSE 0

\* ------------------------------------------------------------ table access
RowsOfSheet(R, id) == {r \in DOMAIN R : R[r].score_sheet = id}

\* ORDER BY display_order: every arrangement of the rows that respects it.
OrderedRows(R, rs) ==
  { s \in [1..Cardinality(rs) -> rs] :
      /\ \A i, j \in 1..Cardinality(rs) : i # j => s[i] # s[j]
      /\ \A i, j \in 1..Cardinality(rs) :
           i < j => DisplayOrder(R[s[i]].section) <= DisplayOrder(R[s[j]].section) }

FetchedSections(R, order) == [i \in 1..Len(order) |-> MkSection(order[i], R[order[i]])]

Opt(f, k) == IF k \in DOMAIN f THEN <<f[k]>> ELSE <<>>

\* The state of one sheet: its header and its section rows.
SheetState(S, R, id) ==
  [id |-> id, hdr |-> S[id], rows |-> {[id |-> r, row |-> R[r]] : r \in RowsOfSheet(R, id)}]

\* ------------------------------------------------------------ transactions
NoTx == [sheets |-> <<>>, secs |-> <<>>, snapS |-> <<>>, snapR |-> <<>>,
         readS |-> {}, writeS |-> {}, touched |-> {}, open |-> FALSE]

\* BEGIN / SAVEPOINT cockroach_restart, and ROLLBACK TO SAVEPOINT: the
\* transaction sees the tables as committed now.
BeginTx(S, R) == [sheets |-> S, secs |-> R, snapS |-> S, snapR |-> R,
                  readS |-> {}, writeS |-> {}, touched |-> {}, open |-> TRUE]

\* Rows the transaction read or wrote that a later commit has changed.
Conflict(t, S, R) ==
  \/ \E i \in t.readS \cup t.writeS : Opt(S, i) # Opt(t.snapS, i)
  \/ \E r \in t.touched : Opt(R, r) # Opt(t.snapR, r)
  \/ \E i \in t.readS : RowsOfSheet(R, i) # RowsOfSheet(t.snapR, i)
  \/ \E i \in t.readS : \E r \in RowsOfSheet(R, i) : R[r] # t.snapR[r]

\* COMMIT: the rows the transaction wrote replace the committed ones.
ApplySheets(t, S) ==
  [i \in DOMAIN S \cup t.writeS |-> IF i \in t.writeS THEN t.sheets[i] ELSE S[i]]
ApplySecs(t, R) ==
  LET w == t.touched \cap DOMAIN t.secs
  IN [r \in DOMAIN R \cup w |-> IF r \in w THEN t.secs[r] ELSE R[r]]

\* ---------------------------------------------------- statements (pure part)
TimingsColumn(sheet) == MarshalTimings(sheet.Timings)

\* INSERT INTO score_sheets (division, team, template, timings, comments, round, author)
HeaderRow(sheet) ==
  [division |-> sheet.DivisionId, team |-> sheet.Team,
   template |-> sheet.ScoreSheetTemplateId, timings |-> TimingsColumn(sheet),
   comments |-> sheet.Comments, round |-> sheet.Round, author |-> sheet.Author]

HeaderFKOk(sheet) == sheet.Team \in Teams /\ sheet.ScoreSheetTemplateId \in Templates

\* created_at is not in the column list: the row takes DEFAULT
\* current_timestamp(), kept as the number of the insert.
InsertHeader(S, id, sheet) == S @@ (id :> (HeaderRow(sheet) @@ [created_at |-> id]))

\* INSERT INTO score_sheet_sections (section, value, score_sheet) VALUES ...
SectionsFKOk(list) == \A i \in 1..Len(list) : list[i].SectionId \in SectionIds

\* A variant whose rows reference the id generated before this one.
InsertSectionsStaleId(R, first, id, list) ==
  R @@ [r \in first..(first + Len(list) - 1) |->
         [section |-> list[r - first + 1].SectionId,
          value |-> ToDecimal5(list[r - first + 1].Value),
          score_sheet |-> id - 1]]

InsertSections(R, first, id, list) ==
  R @@ [r \in first..(first + Len(list) - 1) |->
         [section |-> list[r - first + 1].SectionId,
          value |-> ToDecimal5(list[r - first + 1].Value),
          score_sheet |-> id]]

\* A variant that writes every column of the object back.
UpdateHeaderRowAll(S, id, sheet) ==
  IF id \in DOMAIN S
  THEN [S EXCEPT ![id] = HeaderRow(sheet) @@ [created_at |-> S[id].created_at]]
  ELSE S

\* UPDATE score_sheets SET team, timings, comments WHERE id = scoreSheetId
UpdateHeaderRow(S, id, sheet) ==
  IF id \in DOMAIN S
  THEN [S EXCEPT ![id].team = sheet.Team,
                 ![id].timings = TimingsColumn(sheet),
                 ![id].comments = sheet.Comments]
  ELSE S

\* A variant that inserts the row an update does not find.
RECURSIVE UpdateSectionRowsUpsert(_, _)
UpdateSectionRowsUpsert(R, list) ==
  IF list = <<>> THEN R
  ELSE LET s == Head(list)
           R1 == IF s.Id \in DOMAIN R
                 THEN [R EXCEPT ![s.Id].value = ToDecimal5(s.Value)]
                 ELSE R @@ (s.Id :> [section |-> "a", value |-> ToDecimal5(s.Value),
                                     score_sheet |-> 1])
       IN UpdateSectionRowsUpsert(R1, Tail(list))

\* for each section: UPDATE score_sheet_sections SET value WHERE id = section.Id
RECURSIVE UpdateSectionRows(_, _)
UpdateSectionRows(R, list) ==
  IF list = <<>> THEN R
  ELSE LET s == Head(list)
           R1 == IF s.Id \in DOMAIN R
                 THEN [R EXCEPT ![s.Id].value = ToDecimal5(s.Value)]
                 ELSE R
       IN UpdateSectionRows(R1, Tail(list))

\* An Id that is no UUID ("" on a section the mutator added) fails the statement.
SectionIdsValid(list) == \A i \in 1..Len(list) : list[i].Id # 0

SectionTargets(list) == {list[i].Id : i \in 1..Len(list)}


\* ----------------------------------------------------------- FetchScoreSheet
FqInit == [hdr |-> "todo", sec |-> "todo", sheet |-> <<>>, rows |-> <<>>, err |-> <<>>]

\* A variant that keeps the last error a task returned.
GroupErrLast(cur, e) == <<e>>

\* errgroup keeps the first error a task returns.
GroupErr(cur, e) == IF cur = <<>> THEN <<e>> ELSE cur

\* A variant whose Get reports no error when there is no row.
HeaderQueryNoError(S, id) ==
  IF id \in DOMAIN S THEN [err |-> <<>>, row |-> <<S[id]>>]
  ELSE [err |-> <<>>, row |-> <<>>]

\* txx.Get / s.DB.Get of the header row: sql.ErrNoRows when there is none.
HeaderQuery(S, id) ==
  IF id \in DOMAIN S THEN [err |-> <<>>, row |-> <<S[id]>>]
  ELSE [err |-> <<ErrNoRows>>, row |-> <<>>]

\* First task of the group: the header query, then scoreSheet = &fetchedSheet.
HeaderTask(f, S, id, fail) ==
  LET q == HeaderQuery(S, id) IN
  IF fail THEN [f EXCEPT !.hdr = "err", !.err = GroupErr(@, ErrStore)]
  ELSE IF q.err # <<>> THEN [f EXCEPT !.hdr = "norows", !.err = GroupErr(@, q.err[1])]
  ELSE [f EXCEPT !.hdr = "ok", !.sheet = q.row]

\* Second task of the group: the sections query, then sections = fetchedSections.
SectionsTask(f, R, order, fail) ==
  IF fail THEN [f EXCEPT !.sec = "err", !.err = GroupErr(@, ErrStore)]
  ELSE [f EXCEPT !.sec = "ok", !.rows = FetchedSections(R, order)]

\* A variant that returns whatever header it has, whatever the group's error.
FetchResultPartial(f, id) ==
  IF f.sheet # <<>> THEN Result(<<MkSheet(id, f.sheet[1], f.rows)>>, NoErr)
  ELSE IF f.err # <<>> THEN Result(NoSheet, WrapFetch(f.err[1]))
  ELSE Result(NoSheet, NoErr)

\* What FetchScoreSheet returns once group.Wait() has returned.
FetchResult(f, id) ==
  IF f.err # <<>> THEN Result(NoSheet, WrapFetch(f.err[1]))
  ELSE IF f.sheet = <<>> THEN Result(NoSheet, NoErr)
  ELSE Result(<<MkSheet(id, f.sheet[1], f.rows)>>, NoErr)

\* The id the final fetch is given: scoreSheetID, scanned by the last run of
\* the closure, or the parameter of the update.
FetchId(p) == IF op[p].kind = "create" THEN sid[p] ELSE op[p].id

NoOp == [kind |-> "none", id |-> 0, req |-> <<>>]
\* What is recorded of a call: mutator invocations, statements the last run of
\* the closure executed, runs of the closure, whether it committed, what failed.
NoNote == [mut |-> 0, stmts |-> 0, runs |-> 0, committed |-> FALSE, hdrOk |-> FALSE,
           secFailed |-> FALSE, mutFailed |-> FALSE, missing |-> FALSE, fault |-> FALSE,
           first |-> 0, state |-> <<>>]

\* The counts of a note are kept up to RunCap, which no call reaches while
\* the store's unprovoked serialization failures are counted by att.
RunCap == MaxCalls + MaxRetries + 1
Tick(n) == IF n < RunCap THEN n + 1 ELSE n

\* Ids the create closures still to run will take.
Reserved == Cardinality({q \in Procs : pc[q] = "c_tx"})

\* Ids a caller can name: those of committed sheets, the one a failed create
\* attempted, and 0 for a uuid that was never generated.  An id is random and
\* leaves its transaction only by the call's return.
CallIds ==
  {0} \cup DOMAIN sheets
      \cup {sid[q] : q \in {x \in Procs : pc[x] = "done" /\ op[x].kind = "create"}}

\* Callers are interchangeable: of two idle ones the first calls.
MayCall(p) ==
  /\ pc[p] = "idle" /\ calls < MaxCalls
  /\ \A q \in Procs : (q # p /\ pc[q] = "idle") => p = "p1"

\* The call returns r; its transaction, if still open, is rolled back.
Finish(p, r) ==
  /\ pc' = [pc EXCEPT ![p] = "done"]
  /\ ret' = [ret EXCEPT ![p] = r]
  /\ tx' = [tx EXCEPT ![p] = NoTx]
  /\ obj' = [obj EXCEPT ![p] = <<>>]

\* Variants of Abort: one that leaves the transaction's writes in the tables,
\* one that wraps the error it hands back.
AbortKeepsWrites(p, t, err) ==
  /\ Finish(p, Result(NoSheet, err))
  /\ op' = [op EXCEPT ![p].req = <<>>]
  /\ sheets' = ApplySheets(t, sheets)
  /\ secs' = ApplySecs(t, secs)

AbortWrapsError(p, t, err) ==
  /\ Finish(p, Result(NoSheet, WrapFetch(err[1])))
  /\ op' = [op EXCEPT ![p].req = <<>>]
  /\ sheets' = sheets
  /\ secs' = secs

\* The closure returned err, no serialization failure: ExecuteTxx rolls the
\* transaction t back and the call returns (nil, err).
Abort(p, t, err) ==
  /\ Finish(p, Result(NoSheet, err))
  /\ op' = [op EXCEPT ![p].req = <<>>]
  /\ sheets' = sheets
  /\ secs' = secs

\* GetScoreSheet: FetchScoreSheet(ctx, id, nil)
CallFetch(p, id) ==
  /\ MayCall(p)
  /\ calls' = calls + 1
  /\ pc' = [pc EXCEPT ![p] = "f_run"]
  /\ op' = [op EXCEPT ![p] = [kind |-> "fetch", id |-> id, req |-> <<>>]]
  /\ fq' = [fq EXCEPT ![p] = FqInit]
  /\ UNCHANGED <<sheets, secs, nextId, nextRow, tx, obj, sid, ret, att, faults, note, hist,
                 serial>>
  /\ UNCHANGED <<ladderVars, fanVars>>

\* The header task of a fetch outside a transaction: its own read of the
\* committed tables.
FetchHeaderTask(p) ==
  /\ pc[p] = "f_run" /\ fq[p].hdr = "todo"
  /\ \E fail \in Fails :
       /\ fq' = [fq EXCEPT ![p] = HeaderTask(@, sheets, FetchId(p), fail)]
       /\ faults' = faults + Count(fail)
  /\ UNCHANGED <<sheets, secs, nextId, nextRow, calls, pc, op, tx, obj, sid, ret, att,
                 note, hist, serial>>
  /\ UNCHANGED <<ladderVars, fanVars>>

\* The sections task of a fetch outside a transaction.
FetchSectionsTask(p) ==
  /\ pc[p] = "f_run" /\ fq[p].sec = "todo"
  /\ \E fail \in Fails :
       \E order \in OrderedRows(secs, RowsOfSheet(secs, FetchId(p))) :
         /\ fq' = [fq EXCEPT ![p] = SectionsTask(@, secs, order, fail)]
         /\ faults' = faults + Count(fail)
  /\ UNCHANGED <<sheets, secs, nextId, nextRow, calls, pc, op, tx, obj, sid, ret, att,
                 note, hist, serial>>
  /\ UNCHANGED <<ladderVars, fanVars>>

\* group.Wait() and the return of the call.
FetchJoin(p) ==
  /\ pc[p] = "f_run" /\ fq[p].hdr # "todo" /\ fq[p].sec # "todo"
  /\ Finish(p, FetchResult(fq[p], FetchId(p)))
  /\ UNCHANGED <<sheets, secs, nextId, nextRow, calls, op, sid, fq, att, faults, note, hist,
                 serial>>
  /\ UNCHANGED <<ladderVars, fanVars>>

\* FetchScoreSheet(ctx, id, tx): both tasks read the transaction's tables; they
\* finish in either order.
TxFetch(t, id, hfail, sfail, order, hdrFirst) ==
  IF hdrFirst
  THEN SectionsTask(HeaderTask(FqInit, t.sheets, id, hfail), t.secs, order, sfail)
  ELSE HeaderTask(SectionsTask(FqInit, t.secs, order, sfail), t.sheets, id, hfail)

\* ---------------------------------------------------------- CreateScoreSheet
\* The mutator of a call is fixed once its closure first runs.
Chosen(p, all) == IF op[p].req = <<>> THEN all ELSE {op[p].req[1]}

\* crdb.ExecuteTxx begins the transaction.
CallCreate(p) ==
  /\ MayCall(p)
  /\ nextId + Reserved <= MaxIds
  /\ calls' = calls + 1
  /\ pc' = [pc EXCEPT ![p] = "c_tx"]
  /\ op' = [op EXCEPT ![p] = [kind |-> "create", id |-> 0, req |-> <<>>]]
  /\ tx' = [tx EXCEPT ![p] = BeginTx(sheets, secs)]
  /\ UNCHANGED <<sheets, secs, nextId, nextRow, obj, sid, fq, ret, att, faults, note, hist,
                 serial>>
  /\ UNCHANGED <<ladderVars, fanVars>>

\* One run of the closure: a fresh ScoreSheet, the mutator, the header insert
\* (RETURNING id into scoreSheetID), the sections insert.
CreateClosure(p) ==
  /\ pc[p] = "c_tx"
  /\ \E req \in Chosen(p, CreateReqs) :
     \E out \in {"ok"} \cup {o \in {"hdr_fail", "sec_fail"} : TRUE \in Fails /\ ~req.fail} :
       LET sheet == NewSheet(req) IN
       /\ faults' = faults + Count(out # "ok")
       /\ IF req.fail
          THEN /\ Abort(p, tx[p], <<ErrMutator>>)
               /\ note' = [note EXCEPT ![p].mut = Tick(@), ![p].runs = Tick(@), ![p].stmts = 0,
                                       ![p].mutFailed = TRUE]
               /\ UNCHANGED <<nextId, nextRow, sid>>
          ELSE IF out = "hdr_fail" \/ ~HeaderFKOk(sheet)
          THEN /\ Abort(p, tx[p], <<IF out = "hdr_fail" THEN ErrStore ELSE ErrFK>>)
               /\ note' = [note EXCEPT ![p].mut = Tick(@), ![p].runs = Tick(@), ![p].stmts = 0]
               /\ UNCHANGED <<nextId, nextRow, sid>>
          ELSE IF out = "sec_fail" \/ ~SectionsFKOk(sheet.Sections)
          THEN /\ Abort(p, [tx[p] EXCEPT !.sheets = InsertHeader(@, nextId, sheet),
                                         !.writeS = @ \cup {nextId}],
                        <<IF out = "sec_fail" THEN ErrStore ELSE ErrFK>>)
               /\ note' = [note EXCEPT ![p].mut = Tick(@), ![p].runs = Tick(@), ![p].stmts = 1,
                                       ![p].hdrOk = TRUE, ![p].secFailed = TRUE]
               /\ sid' = [sid EXCEPT ![p] = nextId]
               /\ nextId' = nextId + 1
               /\ UNCHANGED nextRow
          ELSE /\ tx' = [tx EXCEPT
                   ![p].sheets = InsertHeader(@, nextId, sheet),
                   ![p].writeS = @ \cup {nextId},
                   ![p].secs = InsertSections(@, nextRow, nextId, sheet.Sections),
                   ![p].touched = @ \cup (nextRow..(nextRow + Len(sheet.Sections) - 1))]
               /\ op' = [op EXCEPT ![p].req = <<req>>]
               /\ note' = [note EXCEPT ![p].mut = Tick(@), ![p].runs = Tick(@), ![p].stmts = 2,
                                       ![p].hdrOk = TRUE, ![p].first = nextRow]
               /\ sid' = [sid EXCEPT ![p] = nextId]
               /\ nextId' = nextId + 1
               /\ nextRow' = nextRow + Len(sheet.Sections)
               /\ obj' = [obj EXCEPT ![p] = <<sheet>>]
               /\ pc' = [pc EXCEPT ![p] = "c_commit"]
               /\ UNCHANGED <<sheets, secs, ret>>
  /\ UNCHANGED <<calls, fq, att, hist, serial>>
  /\ UNCHANGED <<ladderVars, fanVars>>

\* ---------------------------------------------------------- UpdateScoreSheet
CallUpdate(p, id) ==
  /\ MayCall(p)
  /\ calls' = calls + 1
  /\ pc' = [pc EXCEPT ![p] = "u_tx"]
  /\ op' = [op EXCEPT ![p] = [kind |-> "update", id |-> id, req |-> <<>>]]
  /\ tx' = [tx EXCEPT ![p] = BeginTx(sheets, secs)]
  /\ UNCHANGED <<sheets, secs, nextId, nextRow, obj, sid, fq, ret, att, faults, note, hist,
                 serial>>
  /\ UNCHANGED <<ladderVars, fanVars>>

\* A variant in which a rerun keeps the object of the run before.
HandledStale(p, mut, sheet) == IF obj[p] # <<>> THEN obj[p][1] ELSE Mutate(mut, sheet)

\* handler(scoreSheet): the mutator works on the sheet this run fetched.
Handled(p, mut, sheet) == Mutate(mut, sheet)

\* The closure's fetch returned an error: the closure returns it.
UpdateFetchFails(p) ==
  /\ pc[p] = "u_tx"
  /\ \E hfail \in Fails :
     \E sfail \in {f \in BOOLEAN : f => faults + Count(hfail) < MaxFaults} :
     \E hdrFirst \in BOOLEAN :
     \E order \in OrderedRows(tx[p].secs, RowsOfSheet(tx[p].secs, op[p].id)) :
       LET id == op[p].id
           r == FetchResult(TxFetch(tx[p], id, hfail, sfail, order, hdrFirst), id)
       IN
       /\ r.err # <<>>
       /\ faults' = faults + Count(hfail) + Count(sfail)
       /\ Abort(p, tx[p], r.err)
       /\ note' = [note EXCEPT ![p].runs = Tick(@), ![p].stmts = 0,
                               ![p].missing = id \notin DOMAIN tx[p].sheets,
                               ![p].fault = hfail \/ sfail]
  /\ UNCHANGED <<nextId, nextRow, calls, sid, fq, att, hist, serial>>
  /\ UNCHANGED <<ladderVars, fanVars>>

\* A serialization failure answers one of the fetch's two SELECTs, either
\* because a row it reads was committed anew after the transaction began or
\* for a reason of the store's own.  FetchScoreSheet hands back a new error
\* made of the failure's text; ExecuteTxx finds no SQLSTATE 40001 in it,
\* rolls back and returns it.
UpdateFetchConflict(p) ==
  /\ pc[p] = "u_tx"
  /\ LET stale == Conflict([tx[p] EXCEPT !.readS = {op[p].id}], sheets, secs) IN
     /\ stale \/ att < MaxRetries
     /\ att' = IF stale THEN att ELSE att + 1
  /\ Abort(p, tx[p], WrapFetch(ErrRetry))
  /\ note' = [note EXCEPT ![p].runs = Tick(@), ![p].stmts = 0, ![p].fault = TRUE]
  /\ UNCHANGED <<nextId, nextRow, calls, sid, fq, faults, hist, serial>>
  /\ UNCHANGED <<ladderVars, fanVars>>

\* One run of the closure past a successful fetch: the mutator, the header
\* update, the section updates.
UpdateClosure(p) ==
  /\ pc[p] = "u_tx"
  /\ \E order \in OrderedRows(tx[p].secs, RowsOfSheet(tx[p].secs, op[p].id)) :
     \E hdrFirst \in BOOLEAN :
       LET id == op[p].id
           r == FetchResult(TxFetch(tx[p], id, FALSE, FALSE, order, hdrFirst), id)
       IN
       /\ r.err = <<>>
       /\ \E mut \in Chosen(p, UpdateMuts) :
          \E out \in {"ok"} \cup {o \in {"hdr_fail", "sec_fail"} :
                                   /\ TRUE \in Fails
                                   /\ r.sheet # <<>>
                                   /\ ~MutatorFails(mut, r.sheet[1])} :
            LET m == Handled(p, mut, r.sheet[1]) IN
            /\ faults' = faults + Count(out # "ok")
            /\ IF r.sheet = <<>>
               THEN /\ Abort(p, tx[p], <<ErrPanic>>)
                    /\ note' = [note EXCEPT ![p].mut = Tick(@), ![p].runs = Tick(@),
                                            ![p].stmts = 0,
                                            ![p].missing = id \notin DOMAIN tx[p].sheets]
               ELSE IF MutatorFails(mut, r.sheet[1])
               THEN /\ Abort(p, tx[p], <<ErrMutator>>)
                    /\ note' = [note EXCEPT ![p].mut = Tick(@), ![p].runs = Tick(@),
                                            ![p].stmts = 0, ![p].mutFailed = TRUE]
               ELSE IF out = "hdr_fail" \/ m.Team \notin Teams
               THEN /\ Abort(p, tx[p], <<IF out = "hdr_fail" THEN ErrStore ELSE ErrFK>>)
                    /\ note' = [note EXCEPT ![p].mut = Tick(@), ![p].runs = Tick(@),
                                            ![p].stmts = 0]
               ELSE IF out = "sec_fail" \/ ~SectionIdsValid(m.Sections)
               THEN /\ m.Sections # <<>>
                    /\ Abort(p, [tx[p] EXCEPT !.sheets = UpdateHeaderRow(@, id, m),
                                              !.writeS = @ \cup {id}],
                             <<ErrStore>>)
                    /\ note' = [note EXCEPT ![p].mut = Tick(@), ![p].runs = Tick(@),
                                            ![p].stmts = 1]
               ELSE /\ tx' = [tx EXCEPT
                        ![p].readS = @ \cup {id},
                        ![p].sheets = UpdateHeaderRow(@, id, m),
                        ![p].writeS = @ \cup {id},
                        ![p].secs = UpdateSectionRows(@, m.Sections),
                        ![p].touched = @ \cup SectionTargets(m.Sections)]
                    /\ op' = [op EXCEPT ![p].req = <<mut>>]
                    /\ note' = [note EXCEPT ![p].mut = Tick(@), ![p].runs = Tick(@),
                                            ![p].stmts = 1 + Len(m.Sections)]
                    /\ obj' = [obj EXCEPT ![p] = <<m>>]
                    /\ pc' = [pc EXCEPT ![p] = "u_commit"]
                    /\ UNCHANGED <<sheets, secs, ret>>
  /\ UNCHANGED <<nextId, nextRow, calls, sid, fq, att, hist, serial>>
  /\ UNCHANGED <<ladderVars, fanVars>>

\* ------------------------------------------------------------- crdb.ExecuteTxx
\* Where the call goes on after ROLLBACK TO SAVEPOINT: the closure, from its start.
RetryPc(kind) == IF kind = "create" THEN "c_tx" ELSE "u_tx"

\* The committed calls run one at a time, in commit order, on the tables `t`.
SerialRun(t, p) ==
  IF op[p].kind = "create"
  THEN LET sheet == NewSheet(op[p].req[1]) IN
       [sheets |-> InsertHeader(t.sheets, sid[p], sheet),
        secs |-> InsertSections(t.secs, note[p].first, sid[p], sheet.Sections)]
  ELSE LET id == op[p].id
           mut == op[p].req[1]
       IN
       IF id \notin DOMAIN t.sheets THEN t
       ELSE LET order == CHOOSE o \in OrderedRows(t.secs, RowsOfSheet(t.secs, id)) : TRUE
                sheet == MkSheet(id, t.sheets[id], FetchedSections(t.secs, order))
            IN IF MutatorFails(mut, sheet) THEN t
               ELSE LET m == Mutate(mut, sheet) IN
                    IF m.Team \notin Teams \/ ~SectionIdsValid(m.Sections) THEN t
                    ELSE [sheets |-> UpdateHeaderRow(t.sheets, id, m),
                          secs |-> UpdateSectionRows(t.secs, m.Sections)]

\* RELEASE SAVEPOINT / COMMIT succeeds; the call goes on to its final
\* FetchScoreSheet(ctx, id, nil).
TxCommit(p) ==
  /\ pc[p] \in {"c_commit", "u_commit"}
  /\ ~Conflict(tx[p], sheets, secs)
  /\ sheets' = ApplySheets(tx[p], sheets)
  /\ secs' = ApplySecs(tx[p], secs)
  /\ hist' = hist \cup {SheetState(sheets', secs', i) : i \in DOMAIN sheets'}
  /\ serial' = SerialRun(serial, p)
  /\ note' = [note EXCEPT ![p].committed = TRUE,
                          ![p].state = <<SheetState(sheets', secs', FetchId(p))>>]
  /\ tx' = [tx EXCEPT ![p] = NoTx]
  /\ obj' = [obj EXCEPT ![p] = <<>>]
  /\ op' = [op EXCEPT ![p].req = <<>>]
  /\ pc' = [pc EXCEPT ![p] = "f_run"]
  /\ fq' = [fq EXCEPT ![p] = FqInit]
  /\ UNCHANGED <<nextId, nextRow, calls, sid, ret, att, faults>>
  /\ UNCHANGED <<ladderVars, fanVars>>

\* A serialization failure (SQLSTATE 40001): ROLLBACK TO SAVEPOINT, and the
\* closure is run again.
TxRetry(p) ==
  /\ pc[p] \in {"c_commit", "u_commit"}
  /\ \/ Conflict(tx[p], sheets, secs)
     \/ /\ att < MaxRetries
        /\ op[p].kind = "create" => nextId + Reserved <= MaxIds
  /\ att' = IF Conflict(tx[p], sheets, secs) THEN att ELSE att + 1
  /\ tx' = [tx EXCEPT ![p] = BeginTx(sheets, secs)]
  /\ pc' = [pc EXCEPT ![p] = RetryPc(op[p].kind)]
  /\ UNCHANGED <<sheets, secs, nextId, nextRow, calls, op, obj, sid, fq, ret, faults, note,
                 hist, serial>>
  /\ UNCHANGED <<ladderVars, fanVars>>

\* ExecuteTxx's loop counts nothing: as often as the store answers the commit
\* with a serialization failure, the closure is run again.  (A create takes a
\* new id in every run, so its reruns end with the ids of the model.)
TxRetryUnbounded(p) ==
  /\ pc[p] \in {"c_commit", "u_commit"}
  /\ \/ Conflict(tx[p], sheets, secs)
     \/ op[p].kind = "create" => nextId + Reserved <= MaxIds
  /\ tx' = [tx EXCEPT ![p] = BeginTx(sheets, secs)]
  /\ pc' = [pc EXCEPT ![p] = RetryPc(op[p].kind)]
  /\ UNCHANGED <<sheets, secs, nextId, nextRow, calls, op, obj, sid, fq, ret, att, faults,
                 note, hist, serial>>
  /\ UNCHANGED <<ladderVars, fanVars>>

\* The caller has its result and may call again.
Return(p) ==
  /\ pc[p] = "done"
  /\ pc' = [pc EXCEPT ![p] = "idle"]
  /\ op' = [op EXCEPT ![p] = NoOp]
  /\ ret' = [ret EXCEPT ![p] = NoResult]
  /\ sid' = [sid EXCEPT ![p] = 0]
  /\ fq' = [fq EXCEPT ![p] = FqInit]
  /\ note' = [note EXCEPT ![p] = NoNote]
  /\ UNCHANGED <<sheets, secs, nextId, nextRow, calls, tx, obj, att, faults, hist, serial>>
  /\ UNCHANGED <<ladderVars, fanVars>>

\* ---------------------------------------------------------- FetchDanceLadders
\* Averages are decimals: the scores query yields them in thousandths, and
\* after Round(2) they are whole hundredths.  A float64 holding such a value
\* is written as the number of hundredths it is nearest to: Float64() of a
\* two-place decimal and NewFromFloat() of the result give the decimal back.
Thousandths == {0 - 1500, 0, 1005, 2500}

\* decimal.Round(2): half away from zero.
Round2(n) == IF n >= 0 THEN (n + 5) \div 10 ELSE 0 - ((5 - n) \div 10)

NameRank(n) == IF n = "Alpha" THEN 1 ELSE 2

\* scoreMap[team]: the team's rows in the order the query returned them.
RECURSIVE ScoreList(_, _)
ScoreList(scores, team) ==
  IF scores = <<>> THEN <<>>
  ELSE LET row == Head(scores)
           rest == ScoreList(Tail(scores), team)
       IN IF row.Team = team
          THEN <<[Round |-> row.Round, Average |-> Round2(row.Average),
                  Count |-> row.Count]>> \o rest
          ELSE rest

\* A variant of the loop that takes round 0 for a competition round.
RECURSIVE TallyInterviewAsRound(_, _, _)
TallyInterviewAsRound(list, rounds, acc) ==
  IF list = <<>> THEN acc
  ELSE LET score == Head(list)
           dec == score.Average
           next ==
             IF score.Round <= rounds
             THEN [acc EXCEPT !.bestRound = IF dec > @ THEN dec ELSE @]
             ELSE [acc EXCEPT !.bestFinal = IF dec > @ THEN dec ELSE @]
       IN TallyInterviewAsRound(Tail(list), rounds, next)

\* The loop over a team's round averages: interviewScore, bestRound, bestFinal.
RECURSIVE Tally(_, _, _)
Tally(list, rounds, acc) ==
  IF list = <<>> THEN acc
  ELSE LET score == Head(list)
           dec == score.Average
           next ==
             IF score.Round = 0
             THEN [acc EXCEPT !.interview = @ + dec]
             ELSE IF score.Round <= rounds
             THEN [acc EXCEPT !.bestRound = IF dec > @ THEN dec ELSE @]
             ELSE IF score.Round > rounds
             THEN [acc EXCEPT !.bestFinal = IF dec > @ THEN dec ELSE @]
             ELSE acc
       IN Tally(Tail(list), rounds, next)

\* A variant of FinalTotal that counts a best final of zero as scored.
FinalTotalOfZero(interview, bestFinal) ==
  IF bestFinal >= 0 THEN interview + bestFinal ELSE 0

\* if ladderEntry.BestFinal > 0.0 { FinalTotal = interview + bestFinal } else { 0.0 }
FinalTotalOf(interview, bestFinal) ==
  IF bestFinal > 0 THEN interview + bestFinal ELSE 0

LadderEntry(team, scores) ==
  LET list == ScoreList(scores, team.ID)
      t == Tally(list, team.CompetitionRounds,
                 [interview |-> 0, bestRound |-> 0, bestFinal |-> 0])
  IN [Team |-> [Id |-> team.ID, Name |-> team.Name, Division |-> team.DivisionID],
      Rounds |-> list,
      InterviewScore |-> t.interview,
      BestRound |-> t.bestRound,
      BestFinal |-> t.bestFinal,
      RoundTotal |-> t.interview + t.bestRound,
      FinalTotal |-> FinalTotalOf(t.interview, t.bestFinal)]

\* A variant of the less function without the comparison of names.
LadderLessNoName(a, b) ==
  IF a.FinalTotal < b.FinalTotal THEN TRUE
  ELSE IF a.FinalTotal > b.FinalTotal THEN FALSE
  ELSE a.RoundTotal < b.RoundTotal

\* The less function handed to sort.SliceStable.
LadderLess(a, b) ==
  IF a.FinalTotal < b.FinalTotal THEN TRUE
  ELSE IF a.FinalTotal > b.FinalTotal THEN FALSE
  ELSE IF a.RoundTotal < b.RoundTotal THEN TRUE
  ELSE IF a.RoundTotal > b.RoundTotal THEN FALSE
  ELSE NameRank(a.Team.Name) < NameRank(b.Team.Name)

\* A variant of the insertion that moves an entry past its equals.
RECURSIVE InsertUnstable(_, _)
InsertUnstable(sorted, e) ==
  IF sorted = <<>> THEN <<e>>
  ELSE LET last == sorted[Len(sorted)] IN
       IF ~LadderLess(last, e)
       THEN InsertUnstable(SubSeq(sorted, 1, Len(sorted) - 1), e) \o <<last>>
       ELSE sorted \o <<e>>

\* sort.SliceStable: an entry goes behind the last one it is not less than.
RECURSIVE InsertStable(_, _)
InsertStable(sorted, e) ==
  IF sorted = <<>> THEN <<e>>
  ELSE LET last == sorted[Len(sorted)] IN
       IF LadderLess(e, last)
       THEN InsertStable(SubSeq(sorted, 1, Len(sorted) - 1), e) \o <<last>>
       ELSE sorted \o <<e>>

RECURSIVE SortStable(_, _)
SortStable(list, sorted) ==
  IF list = <<>> THEN sorted
  ELSE SortStable(Tail(list), InsertStable(sorted, Head(list)))

\* A variant that makes entries only for the teams that have score rows.
RECURSIVE EntriesOfScored(_, _, _)
EntriesOfScored(list, scores, division) ==
  IF list = <<>> THEN <<>>
  ELSE LET rest == EntriesOfScored(Tail(list), scores, division) IN
       IF Head(list).DivisionID = division /\ ScoreList(scores, Head(list).ID) # <<>>
       THEN <<LadderEntry(Head(list), scores)>> \o rest
       ELSE rest

\* ladderMap[division]: the entries of the division's teams in list order, sorted.
RECURSIVE EntriesOf(_, _, _)
EntriesOf(list, scores, division) ==
  IF list = <<>> THEN <<>>
  ELSE LET rest == EntriesOf(Tail(list), scores, division) IN
       IF Head(list).DivisionID = division
       THEN <<LadderEntry(Head(list), scores)>> \o rest
       ELSE rest

\* A variant that leaves the entries in list order.
DivisionLadderUnsorted(list, scores, division) ==
  [Division |-> division, Ladder |-> EntriesOf(list, scores, division)]

DivisionLadder(list, scores, division) ==
  [Division |-> division, Ladder |-> SortStable(EntriesOf(list, scores, division), <<>>)]

\* results: one ladder per division, in the order the map iteration takes.
LadderResults(list, scores) ==
  LET divs == {list[i].DivisionID : i \in 1..Len(list)}
      orders == {o \in [1..Cardinality(divs) -> divs] :
                   \A i, j \in 1..Cardinality(divs) : i # j => o[i] # o[j]}
  IN {[i \in 1..Cardinality(divs) |-> DivisionLadder(list, scores, o[i])] : o \in orders}

NoLadders == [ladders |-> <<>>, err |-> <<"pending">>]

\* The whole call: the teams query, the scores query, the ladders.  The store
\* is called twice, both calls receiving the same rows.
FetchDanceLadders ==
  /\ lprev = NoLadders
  /\ lprev' = lres
  /\ \E out \in {"ok", "teams_fail", "scores_fail"} :
       IF out = "teams_fail"
       THEN lres' = [ladders |-> <<>>, err |-> <<"Error fetching teams", ErrStore>>]
       ELSE IF out = "scores_fail"
       THEN lres' = [ladders |-> <<>>, err |-> <<"Error fetching scores", ErrStore>>]
       ELSE \E r \in LadderResults(lteams, lscores) :
              lres' = [ladders |-> r, err |-> <<>>]
  /\ UNCHANGED <<lteams, lscores, ltable, storeVars, fanVars>>

\* The rows the two queries can return: two teams of one or two divisions, in
\* either order and with different names or the same one, and for each team
\* at most MaxRows (team, round) groups.  score_sheets.round is an INT with no
\* CHECK: a round below 0 can be stored.
Reverse(q) == [i \in 1..Len(q) |-> q[Len(q) + 1 - i]]

TeamPair(name2, d, cr, cr2) ==
  <<[ID |-> "t1", Name |-> "Alpha", DivisionID |-> "d1", CompetitionRounds |-> cr],
    [ID |-> "t2", Name |-> name2, DivisionID |-> d, CompetitionRounds |-> cr2]>>

TeamRows ==
  { TeamPair("Beta", d, cr, cr2) :
      <<cr, d, cr2>> \in {<<1, "d1", 1>>, <<2, "d1", 2>>, <<1, "d2", 2>>} }
  \cup {Reverse(TeamPair("Beta", "d1", 1, 1)),
        TeamPair("Alpha", "d1", 1, 1), Reverse(TeamPair("Alpha", "d1", 1, 1))}

MinRound == 0 - 1
Rounds == MinRound..MaxRound

RoundScoresOf(values) ==
  { f \in UNION {[R -> values] : R \in SUBSET Rounds} : Cardinality(DOMAIN f) <= MaxRows }

RoundScores == RoundScoresOf(Thousandths)

RECURSIVE RowsOf(_, _, _)
RowsOf(team, f, r) ==
  IF r > MaxRound THEN <<>>
  ELSE (IF r \in DOMAIN f
        THEN <<[Team |-> team, Round |-> r, Average |-> f[r], Count |-> 1]>>
        ELSE <<>>) \o RowsOf(team, f, r + 1)

\* The second team's averages are drawn from two of the values.
ScoreRows ==
  { RowsOf("t2", g, MinRound) \o RowsOf("t1", f, MinRound) :
      f \in RoundScores, g \in RoundScoresOf({0, 1005}) }

\* The scores query has no ORDER BY: its rows come in one order or the other.
QueryOrder(teams, rows) == IF teams[1].ID = "t1" THEN rows ELSE Reverse(rows)

\* One division with competition_rounds = 2: team A with averages 80, 70, 90,
\* 85 in rounds 0..3, team B with 75 in round 0.
ScenarioTeams ==
  {TeamPair("Beta", "d1", 2, 2), Reverse(TeamPair("Beta", "d1", 2, 2))}

ScenarioRows ==
  <<[Team |-> "t1", Round |-> 0, Average |-> 80000, Count |-> 1],
    [Team |-> "t1", Round |-> 1, Average |-> 70000, Count |-> 1],
    [Team |-> "t2", Round |-> 0, Average |-> 75000, Count |-> 1],
    [Team |-> "t1", Round |-> 2, Average |-> 90000, Count |-> 1],
    [Team |-> "t1", Round |-> 3, Average |-> 85000, Count |-> 1]>>

ScenarioScores == {ScenarioRows, Reverse(ScenarioRows)}

\* The scores query over the tables.  A sheet is its team, its round and its
\* section rows, each joined to its template section: value in thousandths,
\* multiplier an INT.
RECURSIVE SheetTotal(_)
SheetTotal(sections) ==
  IF sections = <<>> THEN 0
  ELSE Head(sections).value * Head(sections).multiplier + SheetTotal(Tail(sections))

\* The inner query: the two JOINs keep a sheet once per section row, GROUP BY
\* score_sheets.id sums them; a sheet without section rows has no row here.
InnerTotals(table) ==
  {i \in 1..Len(table) : table[i].sections # <<>>}

RECURSIVE SumTotals(_, _)
SumTotals(table, ids) ==
  IF ids = {} THEN 0
  ELSE LET i == CHOOSE x \in ids : TRUE
       IN SheetTotal(table[i].sections) + SumTotals(table, ids \ {i})

\* The outer query for one (team, round): AVG(t1.total) and count(*) over the
\* rows of the inner query.  The totals drawn below have whole means.
RECURSIVE GroupRows(_, _, _, _)
GroupRows(table, team, r, last) ==
  IF r > last THEN <<>>
  ELSE LET ids == {i \in InnerTotals(table) :
                     table[i].team = team /\ table[i].round = r}
       IN (IF ids = {} THEN <<>>
           ELSE <<[Team |-> team, Round |-> r,
                   Average |-> SumTotals(table, ids) \div Cardinality(ids),
                   Count |-> Cardinality(ids)]>>)
          \o GroupRows(table, team, r + 1, last)

ScoresQuery(table) ==
  LET rounds == {table[i].round : i \in 1..Len(table)} \cup {MinRound}
      last == CHOOSE r \in rounds : \A q \in rounds : q <= r
  IN GroupRows(table, "t1", MinRound, last) \o GroupRows(table, "t2", MinRound, last)

\* The sheets behind rows drawn directly: one sheet per row, its one section
\* of multiplier 1 holding the average.
TableOf(rows) ==
  [i \in 1..Len(rows) |->
     [team |-> rows[i].Team, round |-> rows[i].Round,
      sections |-> <<[value |-> rows[i].Average, multiplier |-> 1]>>]]

\* Tables of one or two sheets of rounds 0 and 1, each sheet with both section
\* rows of its template, one of them, or none.
SectionRows ==
  {<<>>, <<[value |-> 1000, multiplier |-> 2]>>,
   <<[value |-> 1000, multiplier |-> 2], [value |-> 2000, multiplier |-> 1]>>}

SheetRows ==
  [team : Teams, round : 0..1, sections : SectionRows]

SheetTables ==
  {<<a>> : a \in SheetRows} \cup {<<a, b>> : a \in SheetRows, b \in SheetRows}

\* ------------------------------------------------------------------ fan-outs
\* The five functions that start two tasks on an errgroup and wait for them.
\* A call is the function and whether it was handed a transaction (txx).
FanTasks == 1..2

FanCalls ==
  {[fn |-> f, txx |-> FALSE] :
     f \in {"FetchScoreSheet", "FetchScoreSheetTemplates", "FetchTeam", "GetTeam",
            "GetDivision"}}
  \cup {[fn |-> f, txx |-> TRUE] : f \in {"FetchScoreSheet", "FetchTeam"}}

NoFan == [fn |-> "", txx |-> FALSE]

\* One store call of a task: the call made, the handle its queries are issued
\* on, the context its queries are issued with ("none": Get/Select without a
\* context, whatever context the called function was handed), and whether the
\* assignment of its result is made under the mutex.
StoreCall(name, handle, ctx, lock) ==
  [call |-> name, handle |-> handle, ctx |-> ctx, lock |-> lock]

Handle(c) == IF c.txx THEN "tx" ELSE "pool"

FanSteps(c, t) ==
  IF c.fn = "FetchScoreSheet"
  THEN <<StoreCall(IF t = 1 THEN "Get" ELSE "Select", Handle(c), "none", TRUE)>>
  ELSE IF c.fn = "FetchScoreSheetTemplates"
  THEN <<StoreCall("Select", "pool", "none", TRUE)>>
  ELSE IF c.fn = "FetchTeam"
  THEN <<StoreCall(IF t = 1 THEN "Get" ELSE "Select", Handle(c), "none", FALSE)>>
  ELSE IF c.fn = "GetTeam"
  THEN IF t = 1
       THEN <<StoreCall("FetchTeam", "pool", "none", FALSE),
              StoreCall("FetchDivision", "pool", "none", FALSE)>>
       ELSE <<StoreCall("FetchScoreSheetSummary", "pool", "none", FALSE)>>
  ELSE IF t = 1
       THEN <<StoreCall("FetchDivision", "pool", "none", FALSE),
              StoreCall("FetchScoreSheetTemplates", "pool", "none", FALSE)>>
       ELSE <<StoreCall("FetchTeams", "pool", "group", FALSE)>>

\* A variant in which every task assigns to one variable.
SlotShared(fn, t, k) == "result"

\* The variable step k of task t assigns to.
Slot(fn, t, k) ==
  IF fn = "FetchScoreSheet" THEN (IF t = 1 THEN "scoreSheet" ELSE "sections")
  ELSE IF fn = "FetchScoreSheetTemplates" THEN (IF t = 1 THEN "dbTemplates" ELSE "dbSections")
  ELSE IF fn = "FetchTeam" THEN (IF t = 1 THEN "dbObj" ELSE "dbMemberObj")
  ELSE IF fn = "GetTeam"
  THEN (IF t = 2 THEN "scoreSheets" ELSE IF k = 1 THEN "team" ELSE "div")
  ELSE (IF t = 2 THEN "teams" ELSE IF k = 1 THEN "div" ELSE "scoreSheetTemplates")

Slots(c) == {Slot(c.fn, t, k) : <<t, k>> \in {x \in FanTasks \X (1..2) : x[2] <= Len(FanSteps(c, x[1]))}}

\* What the function makes of the error Wait returned.
Surfaced(fn) ==
  IF fn \in {"FetchScoreSheet", "FetchScoreSheetTemplates"} THEN "Error fetching"
  ELSE IF fn = "FetchTeam" THEN "the error"
  ELSE "codes.Internal"

NoTask == [pos |-> "idle", step |-> 0]
NoGroup == [err |-> <<>>, cancelled |-> FALSE]
NoJoin == [joined |-> FALSE, err |-> <<>>, shown |-> "", results |-> {}]

FanIdle ==
  /\ fcall = NoFan
  /\ ftask = [t \in FanTasks |-> NoTask]
  /\ fwrites = {} /\ fmutex = 0
  /\ fgroup = NoGroup /\ fret = NoJoin
  /\ flog = <<>> /\ fbad = FALSE

Terminal(t) == ftask[t].pos \in {"done", "failed"}
CurStep(t) == FanSteps(fcall, t)[ftask[t].step]

\* errgroup.WithContext and the two group.Go: both goroutines exist, neither
\* has issued its first store call.
FanCall(c) ==
  /\ fcall = NoFan
  /\ fcall' = c
  /\ ftask' = [t \in FanTasks |-> [pos |-> "start", step |-> 1]]
  /\ UNCHANGED <<fwrites, fmutex, fgroup, fret, flog, fbad>>
  /\ UNCHANGED <<storeVars, ladderVars>>

\* The task issues its store call.
TaskIssue(t) ==
  /\ ftask[t].pos = "start"
  /\ ftask' = [ftask EXCEPT ![t].pos = "call"]
  /\ UNCHANGED <<fcall, fwrites, fmutex, fgroup, fret, flog, fbad>>
  /\ UNCHANGED <<storeVars, ladderVars>>

\* The task after an assignment: its next store call, or return nil.
Advance(t) ==
  IF ftask[t].step < Len(FanSteps(fcall, t))
  THEN [pos |-> "start", step |-> ftask[t].step + 1]
  ELSE [pos |-> "done", step |-> ftask[t].step]

\* The store call returns.  With an error the task returns it: the group keeps
\* the first error and cancels its context.  A call issued with the group's
\* context can also return because that context was cancelled.  Without an
\* error a task of a function with a mutex goes on to lock.Lock(); any other
\* task assigns the result.
TaskQueryReturns(t) ==
  /\ ftask[t].pos = "call"
  /\ \E out \in {"ok", "error"}
             \cup {o \in {"canceled"} : CurStep(t).ctx = "group" /\ fgroup.cancelled} :
       IF out # "ok"
       THEN LET e == [task |-> t, step |-> ftask[t].step, what |-> out] IN
            /\ ftask' = [ftask EXCEPT ![t].pos = "failed"]
            /\ fgroup' = [err |-> GroupErr(fgroup.err, e), cancelled |-> TRUE]
            /\ flog' = Append(flog, e)
            /\ UNCHANGED fwrites
       ELSE IF CurStep(t).lock
       THEN /\ ftask' = [ftask EXCEPT ![t].pos = "lock"]
            /\ UNCHANGED <<fwrites, fgroup, flog>>
       ELSE /\ fwrites' = fwrites \cup {[task |-> t,
                                         slot |-> Slot(fcall.fn, t, ftask[t].step),
                                         locked |-> fmutex = t]}
            /\ ftask' = [ftask EXCEPT ![t] = Advance(t)]
            /\ UNCHANGED <<fgroup, flog>>
  /\ UNCHANGED <<fcall, fmutex, fret, fbad>>
  /\ UNCHANGED <<storeVars, ladderVars>>

\* lock.Lock() returns once the mutex is free.
TaskLock(t) ==
  /\ ftask[t].pos = "lock"
  /\ fmutex = 0
  /\ fmutex' = t
  /\ ftask' = [ftask EXCEPT ![t].pos = "write"]
  /\ UNCHANGED <<fcall, fwrites, fgroup, fret, flog, fbad>>
  /\ UNCHANGED <<storeVars, ladderVars>>

\* The assignment between Lock and the return.
TaskWrite(t) ==
  /\ ftask[t].pos = "write"
  /\ fwrites' = fwrites \cup {[task |-> t, slot |-> Slot(fcall.fn, t, ftask[t].step),
                               locked |-> fmutex = t]}
  /\ ftask' = [ftask EXCEPT ![t].pos = "return"]
  /\ UNCHANGED <<fcall, fmutex, fgroup, fret, flog, fbad>>
  /\ UNCHANGED <<storeVars, ladderVars>>

\* A variant of the return that leaves the mutex as it is.
UnlockedNever(holder, t) == holder

\* The mutex after the deferred lock.Unlock().
Unlocked(holder, t) == 0

\* return nil: the deferred Unlock runs and the task ends.  Unlocking a mutex
\* the task does not hold is the runtime's fatal error.
TaskReturn(t) ==
  /\ ftask[t].pos = "return"
  /\ fbad' = (fbad \/ fmutex # t)
  /\ fmutex' = Unlocked(fmutex, t)
  /\ ftask' = [ftask EXCEPT ![t] = Advance(t)]
  /\ UNCHANGED <<fcall, fwrites, fgroup, fret, flog>>
  /\ UNCHANGED <<storeVars, ladderVars>>

\* group.Wait() returns: every task has returned.  The function returns an
\* error made of the group's error, or what the tasks assigned.
FanJoin ==
  /\ fcall # NoFan /\ ~fret.joined
  /\ \A t \in FanTasks : Terminal(t)
  /\ fret' = IF fgroup.err # <<>>
             THEN [joined |-> TRUE, err |-> fgroup.err, shown |-> Surfaced(fcall.fn),
                   results |-> {}]
             ELSE [joined |-> TRUE, err |-> <<>>, shown |-> "",
                   results |-> {w.slot : w \in fwrites}]
  /\ fgroup' = [fgroup EXCEPT !.cancelled = TRUE]
  /\ UNCHANGED <<fcall, ftask, fwrites, fmutex, flog, fbad>>
  /\ UNCHANGED <<storeVars, ladderVars>>

\* The caller has the result; the next call can be made.
FanReturn ==
  /\ fret.joined
  /\ fcall' = NoFan
  /\ ftask' = [t \in FanTasks |-> NoTask]
  /\ fwrites' = {} /\ fmutex' = 0
  /\ fgroup' = NoGroup /\ fret' = NoJoin
  /\ flog' = <<>> /\ fbad' = FALSE
  /\ UNCHANGED <<storeVars, ladderVars>>

\* ------------------------------------------------------------ specification
\* The tables at the start: empty, or holding the one sheet an earlier
\* CreateScoreSheet of the full section list has left.
SeedSheet == NewSheet(CHOOSE r \in CreateReqs : ~r.fail /\ r.sections = <<"a", "b">>)
Seeds ==
  { [sheets |-> <<>>, secs |-> <<>>],
    [sheets |-> InsertHeader(<<>>, 1, SeedSheet),
     secs |-> InsertSections(<<>>, 1, 1, SeedSheet.Sections)] }

InitStore(made) ==
  /\ \E seed \in Seeds :
       /\ sheets = seed.sheets /\ secs = seed.secs
       /\ serial = seed
       /\ hist = {SheetState(seed.sheets, seed.secs, i) : i \in DOMAIN seed.sheets}
  /\ nextId = Len(sheets) + 1 /\ nextRow = Len(secs) + 1 /\ calls = made
  /\ pc = [p \in Procs |-> "idle"]
  /\ op = [p \in Procs |-> NoOp]
  /\ tx = [p \in Procs |-> NoTx]
  /\ obj = [p \in Procs |-> <<>>]
  /\ sid = [p \in Procs |-> 0]
  /\ fq = [p \in Procs |-> FqInit]
  /\ ret = [p \in Procs |-> NoResult]
  /\ att = 0 /\ faults = 0
  /\ note = [p \in Procs |-> NoNote]
  /\ lteams = <<>> /\ lscores = <<>> /\ ltable = <<>>
  /\ lres = NoLadders /\ lprev = NoLadders
  /\ FanIdle

Init == InitStore(0)

Next ==
  \E p \in Procs :
    \/ \E id \in CallIds : CallFetch(p, id)
    \/ FetchHeaderTask(p)
    \/ FetchSectionsTask(p)
    \/ FetchJoin(p)
    \/ CallCreate(p)
    \/ CreateClosure(p)
    \/ \E id \in CallIds : CallUpdate(p, id)
    \/ UpdateFetchFails(p)
    \/ UpdateFetchConflict(p)
    \/ UpdateClosure(p)
    \/ TxCommit(p)
    \/ TxRetry(p)
    \/ Return(p)

Spec == Init /\ [][Next]_vars

\* One call on a store that holds the sheet of an earlier CreateScoreSheet,
\* with the serialization failures at commit left uncounted.
\* Every caller is a goroutine the scheduler keeps running: a caller that can
\* take a step takes one.  Nothing obliges the store to let a commit succeed.
StepRetry(p) ==
  \/ \E id \in CallIds : CallFetch(p, id)
  \/ FetchHeaderTask(p)
  \/ FetchSectionsTask(p)
  \/ FetchJoin(p)
  \/ CallCreate(p)
  \/ CreateClosure(p)
  \/ \E id \in CallIds : CallUpdate(p, id)
  \/ UpdateFetchFails(p)
  \/ UpdateFetchConflict(p)
  \/ UpdateClosure(p)
  \/ TxCommit(p)
  \/ TxRetryUnbounded(p)
  \/ Return(p)
InitRetry == InitStore(MaxCalls - 1) /\ sheets # <<>>
NextRetry == \E p \in Procs : StepRetry(p)
SpecRetry == InitRetry /\ [][NextRetry]_vars /\ \A p \in Procs : WF_vars(StepRetry(p))

\* The ladder alone: the store idle and empty, the query results drawn from
\* the bounded sets.
InitLadder ==
  /\ sheets = <<>> /\ secs = <<>>
  /\ serial = [sheets |-> <<>>, secs |-> <<>>]
  /\ hist = {}
  /\ nextId = 1 /\ nextRow = 1 /\ calls = 0
  /\ pc = [p \in Procs |-> "idle"]
  /\ op = [p \in Procs |-> NoOp]
  /\ tx = [p \in Procs |-> NoTx]
  /\ obj = [p \in Procs |-> <<>>]
  /\ sid = [p \in Procs |-> 0]
  /\ fq = [p \in Procs |-> FqInit]
  /\ ret = [p \in Procs |-> NoResult]
  /\ att = 0 /\ faults = 0
  /\ note = [p \in Procs |-> NoNote]
  /\ \/ /\ \E teams \in TeamRows : \E rows \in ScoreRows :
             lteams = teams /\ lscores = QueryOrder(teams, rows)
        /\ ltable = TableOf(lscores)
     \/ /\ lteams \in ScenarioTeams /\ lscores \in ScenarioScores
        /\ ltable = TableOf(lscores)
     \/ /\ lteams = TeamPair("Beta", "d1", 1, 1)
        /\ ltable \in SheetTables
        /\ lscores \in {ScoresQuery(ltable), Reverse(ScoresQuery(ltable))}
  /\ lres = NoLadders /\ lprev = NoLadders
  /\ FanIdle

NextLadder == FetchDanceLadders

SpecLadder == InitLadder /\ [][NextLadder]_vars

\* The fan-outs alone, on an idle store.
InitFan == Init /\ sheets = <<>>

NextFan ==
  \/ \E c \in FanCalls : FanCall(c)
  \/ \E t \in FanTasks : TaskIssue(t)
  \/ \E t \in FanTasks : TaskQueryReturns(t)
  \/ \E t \in FanTasks : TaskLock(t)
  \/ \E t \in FanTasks : TaskWrite(t)
  \/ \E t \in FanTasks : TaskReturn(t)
  \/ FanJoin
  \/ FanReturn

SpecFan == InitFan /\ [][NextFan]_vars

\* ------------------------------------------------------------------ claims
Done(p) == pc[p] = "done"
Failed(r) == r.sheet = <<>> /\ r.err # <<>>
NotFound == WrapFetch(ErrNoRows)

\* The sheet a call returned shows the committed state h of that sheet: its
\* header fields and, row by row, its section values.
Shows(sheet, h) ==
  /\ sheet.Id = h.id
  /\ sheet.Team = h.hdr.team
  /\ sheet.Comments = h.hdr.comments
  /\ sheet.Timings = UnmarshalTimings(h.hdr.timings)
  /\ Len(sheet.Sections) = Cardinality(h.rows)
  /\ {[id |-> sheet.Sections[i].Id, value |-> sheet.Sections[i].Value.d5] :
        i \in 1..Len(sheet.Sections)}
     = {[id |-> x.id, value |-> x.row.value] : x \in h.rows}

\* C1: a CreateScoreSheet whose header insert succeeded and whose section
\* insert failed returns an error and no sheet; no score_sheets row with the
\* attempted id and no score_sheet_sections row of it is in the tables, and a
\* fetch by the attempted id fails (with the no-rows error unless a query of
\* that fetch itself failed).
C1_CreateAllOrNothing ==
  \A p \in Procs :
    (Done(p) /\ op[p].kind = "create" /\ note[p].secFailed) =>
      /\ Failed(ret[p])
      /\ ~note[p].committed
      /\ sid[p] \notin DOMAIN sheets
      /\ RowsOfSheet(secs, sid[p]) = {}
      /\ \A q \in Procs :
           (Done(q) /\ op[q].kind = "fetch" /\ op[q].id = sid[p]) =>
             /\ Failed(ret[q])
             /\ (fq[q].hdr # "err" /\ fq[q].sec # "err") => ret[q].err = NotFound

C1_Witness ==
  \E p, q \in Procs :
    /\ Done(p) /\ op[p].kind = "create" /\ note[p].secFailed /\ note[p].hdrOk
    /\ Done(q) /\ op[q].kind = "fetch" /\ op[q].id = sid[p]
    /\ ret[q].err = NotFound
    /\ sheets # <<>>

\* C2: in the step in which the mutator of a Create or an Update returns an
\* error, the call ends with exactly that error and no sheet, the run has
\* executed no insert or update statement, nothing of the call was committed,
\* and the committed tables are left as they were.
C2_MutatorErrorRollsBack ==
  [][\A p \in Procs :
       (note'[p].mutFailed /\ ~note[p].mutFailed) =>
         /\ pc'[p] = "done"
         /\ ret'[p] = Result(NoSheet, <<ErrMutator>>)
         /\ note'[p].stmts = 0
         /\ ~note'[p].committed
         /\ tx'[p] = NoTx
         /\ sheets' = sheets /\ secs' = secs]_vars

C2_Witness ==
  \E p, q \in Procs :
    /\ Done(p) /\ op[p].kind = "create" /\ note[p].mutFailed
    /\ Done(q) /\ op[q].kind = "update" /\ note[q].mutFailed
    /\ op[q].id \in DOMAIN sheets

\* C3: the commit of an UpdateScoreSheet leaves, for every sheet id, the set of
\* score_sheet_sections rows of that sheet as it was: no row is inserted and
\* none is deleted, whatever section list the mutator left.
C3_UpdateKeepsSectionRows ==
  [][\A p \in Procs :
       (op[p].kind = "update" /\ pc[p] = "u_commit" /\ pc'[p] = "f_run") =>
         /\ DOMAIN secs' = DOMAIN secs
         /\ \A i \in SheetIds : RowsOfSheet(secs', i) = RowsOfSheet(secs, i)]_vars

C3_Witness ==
  \E p \in Procs :
    /\ op[p].kind = "update" /\ note[p].committed
    /\ note[p].stmts = 2
    /\ Cardinality(RowsOfSheet(secs, op[p].id)) = 2
    /\ \E r \in DOMAIN secs : secs[r].value = Half

C5_UpdateMissingSheet ==
  \A p \in Procs :
    (Done(p) /\ op[p].kind = "update" /\ note[p].missing) =>
      /\ Failed(ret[p])
      /\ ~note[p].fault => ret[p].err = NotFound
      /\ note[p].mut = 0
      /\ note[p].stmts = 0
      /\ ~note[p].committed

C5_Witness ==
  \E p \in Procs :
    /\ Done(p) /\ op[p].kind = "update" /\ note[p].missing /\ ~note[p].fault
    /\ ret[p].err = NotFound
    /\ sheets # <<>>

\* C6: a finished FetchScoreSheet returns either a sheet built from a header
\* query and a sections query that both succeeded, and no error, or no sheet
\* and an error; when either query failed or the header row was absent it
\* returns no sheet.
C6_FetchCompleteOrError ==
  \A p \in Procs :
    (Done(p) /\ (op[p].kind = "fetch" \/ note[p].committed)) =>
      /\ ret[p].sheet # <<>> =>
           /\ ret[p].err = <<>>
           /\ fq[p].hdr = "ok" /\ fq[p].sec = "ok"
           /\ ret[p].sheet[1] = MkSheet(FetchId(p), fq[p].sheet[1], fq[p].rows)
      /\ (fq[p].hdr # "ok" \/ fq[p].sec # "ok") => Failed(ret[p])

C6_Witness ==
  \E p \in Procs :
    /\ Done(p) /\ op[p].kind = "fetch"
    /\ fq[p].hdr = "ok" /\ fq[p].sec = "err"
    /\ Failed(ret[p])

\* C7: every sheet a call returned shows one committed state of that sheet:
\* its team, comments and timings and all its section values are those of a
\* single state the sheet had after some commit.
C7_NeverHalfWritten ==
  \A p \in Procs :
    (Done(p) /\ ret[p].sheet # <<>>) => \E h \in hist : Shows(ret[p].sheet[1], h)

\* C8: the sheet a successful CreateScoreSheet returns equals the state this
\* call committed: the header fields, and every section value exactly.
C8_CreateReturnsPersisted ==
  \A p \in Procs :
    (Done(p) /\ op[p].kind = "create" /\ ret[p].sheet # <<>>) =>
      /\ Shows(ret[p].sheet[1], note[p].state[1])
      /\ \A i \in 1..Len(ret[p].sheet[1].Sections) : ret[p].sheet[1].Sections[i].Value.exact

\* C9: every committed sheet has exactly one score_sheet_sections row for each
\* section of its template, and no other row.
C9_OneRowPerTemplateSection ==
  \A id \in DOMAIN sheets :
    /\ \A s \in SectionsOf(sheets[id].template) :
         Cardinality({r \in RowsOfSheet(secs, id) : secs[r].section = s}) = 1
    /\ \A r \in RowsOfSheet(secs, id) : secs[r].section \in SectionsOf(sheets[id].template)

\* C10: in every ladder entry FetchDanceLadders returns, RoundTotal is
\* InterviewScore + BestRound, and FinalTotal is InterviewScore + BestFinal
\* when BestFinal > 0 and 0 otherwise, whatever the interview score.
C10_LadderTotals ==
  \A d \in 1..Len(lres.ladders) :
    \A i \in 1..Len(lres.ladders[d].Ladder) :
      LET e == lres.ladders[d].Ladder[i] IN
      /\ e.RoundTotal = e.InterviewScore + e.BestRound
      /\ e.FinalTotal = IF e.BestFinal > 0 THEN e.InterviewScore + e.BestFinal ELSE 0

C10_Witness ==
  /\ lres.err = <<>>
  /\ \E d \in 1..Len(lres.ladders) :
       \E i, j \in 1..Len(lres.ladders[d].Ladder) :
         LET e == lres.ladders[d].Ladder[i]
             f == lres.ladders[d].Ladder[j]
         IN /\ e.InterviewScore > 0 /\ e.BestFinal > 0 /\ e.BestRound = 0
            /\ e.FinalTotal = e.InterviewScore + e.BestFinal
            /\ f.InterviewScore > 0 /\ f.BestFinal = 0 /\ f.FinalTotal = 0
            /\ \E k \in 1..Len(f.Rounds) :
                 f.Rounds[k].Round > 1 /\ f.Rounds[k].Average = 0

\* Helpers of the ladder claims: where a team stands in the teams query, the
\* three sort keys compared, the greatest element of a set of averages.
PosIn(teams, id) == CHOOSE i \in 1..Len(teams) : teams[i].ID = id
TeamsOfDivision(d) == {i \in 1..Len(lteams) : lteams[i].DivisionID = d}
SameKeys(a, b) ==
  /\ a.FinalTotal = b.FinalTotal /\ a.RoundTotal = b.RoundTotal
  /\ NameRank(a.Team.Name) = NameRank(b.Team.Name)
KeysAscend(a, b) ==
  \/ a.FinalTotal < b.FinalTotal
  \/ a.FinalTotal = b.FinalTotal /\ a.RoundTotal < b.RoundTotal
  \/ /\ a.FinalTotal = b.FinalTotal /\ a.RoundTotal = b.RoundTotal
     /\ NameRank(a.Team.Name) <= NameRank(b.Team.Name)
SetMax(S) == CHOOSE x \in S : \A y \in S : y <= x
Entries == {lres.ladders[d].Ladder[i] :
              <<d, i>> \in {x \in (1..Len(lres.ladders)) \X (1..Len(lteams)) :
                              x[2] <= Len(lres.ladders[x[1]].Ladder)}}

\* C11: every returned division ladder holds each team of the division once,
\* in ascending order of FinalTotal, then RoundTotal, then team name, and
\* entries equal on all three keep the order of the teams query.
C11_LadderSortedStable ==
  \A d \in 1..Len(lres.ladders) :
    LET L == lres.ladders[d].Ladder
        T == TeamsOfDivision(lres.ladders[d].Division)
    IN /\ Len(L) = Cardinality(T)
       /\ {L[i].Team.Id : i \in 1..Len(L)} = {lteams[i].ID : i \in T}
       /\ \A i, j \in 1..Len(L) :
            i < j =>
              /\ KeysAscend(L[i], L[j])
              /\ SameKeys(L[i], L[j]) =>
                   PosIn(lteams, L[i].Team.Id) < PosIn(lteams, L[j].Team.Id)

C11_Witness ==
  /\ lres.err = <<>> /\ Len(lres.ladders) = 1
  /\ lteams[1].ID = "t2" /\ lteams[1].Name = lteams[2].Name
  /\ LET L == lres.ladders[1].Ladder
     IN /\ Len(L) = 2 /\ SameKeys(L[1], L[2])
        /\ L[1].RoundTotal > 0 /\ L[1].FinalTotal > 0
        /\ L[1].Team.Id = "t2"

\* C12: in every returned ladder, of two entries with the same FinalTotal and
\* the same RoundTotal the one with the smaller team name comes first,
\* whichever order the teams query and the scores query returned their rows in.
C12_LadderOrderReproducible ==
  \A d \in 1..Len(lres.ladders) :
    LET L == lres.ladders[d].Ladder IN
    \A i, j \in 1..Len(L) :
      ( /\ L[i].FinalTotal = L[j].FinalTotal /\ L[i].RoundTotal = L[j].RoundTotal
        /\ NameRank(L[i].Team.Name) < NameRank(L[j].Team.Name) ) => i < j

C12_Witness ==
  /\ lres.err = <<>> /\ Len(lres.ladders) = 1
  /\ lteams[1].Name = "Beta" /\ lteams[2].Name = "Alpha"
  /\ LET L == lres.ladders[1].Ladder
     IN /\ Len(L) = 2
        /\ L[1].FinalTotal = L[2].FinalTotal /\ L[1].RoundTotal = L[2].RoundTotal
        /\ L[1].RoundTotal > 0
        /\ L[1].Team.Name = "Alpha" /\ L[2].Team.Name = "Beta"

\* C13: an entry whose score rows are all of round 0 has BestRound = 0,
\* BestFinal = 0, FinalTotal = 0, and RoundTotal = InterviewScore = the round-0
\* average.
C13_InterviewOnly ==
  \A e \in Entries :
    (e.Rounds # <<>> /\ \A k \in 1..Len(e.Rounds) : e.Rounds[k].Round = 0) =>
      /\ e.BestRound = 0 /\ e.BestFinal = 0 /\ e.FinalTotal = 0
      /\ e.RoundTotal = e.InterviewScore
      /\ Len(e.Rounds) = 1 /\ e.InterviewScore = e.Rounds[1].Average

C13_Witness ==
  \E e \in Entries :
    /\ Len(e.Rounds) = 1 /\ e.Rounds[1].Round = 0 /\ e.Rounds[1].Average > 0
    /\ e.RoundTotal = e.Rounds[1].Average /\ e.FinalTotal = 0

\* C14: once FetchDanceLadders has returned its ladders, every team of the
\* teams query that has no score row has an entry in its division's ladder,
\* with no rounds and all five derived fields 0, and stands before every
\* other entry of zero totals whose name is greater and behind every one
\* whose name is smaller.
C14_TeamWithoutSheets ==
  lres.err = <<>> =>
    \A t \in 1..Len(lteams) :
      ScoreList(lscores, lteams[t].ID) = <<>> =>
        \E d \in 1..Len(lres.ladders) :
          LET L == lres.ladders[d].Ladder IN
          /\ lres.ladders[d].Division = lteams[t].DivisionID
          /\ \E i \in 1..Len(L) :
               /\ L[i].Team.Id = lteams[t].ID
               /\ L[i].Rounds = <<>>
               /\ L[i].InterviewScore = 0 /\ L[i].BestRound = 0 /\ L[i].BestFinal = 0
               /\ L[i].RoundTotal = 0 /\ L[i].FinalTotal = 0
               /\ \A j \in 1..Len(L) :
                    (L[j].FinalTotal = 0 /\ L[j].RoundTotal = 0) =>
                      /\ NameRank(L[i].Team.Name) < NameRank(L[j].Team.Name) => i < j
                      /\ NameRank(L[j].Team.Name) < NameRank(L[i].Team.Name) => j < i

C14_Witness ==
  /\ lres.err = <<>> /\ Len(lres.ladders) = 1
  /\ lteams[1].Name = "Beta" /\ lteams[2].Name = "Alpha"
  /\ ScoreList(lscores, lteams[1].ID) = <<>>
  /\ ScoreList(lscores, lteams[2].ID) # <<>>
  /\ LET L == lres.ladders[1].Ladder
     IN /\ Len(L) = 2
        /\ L[1].Team.Name = "Alpha" /\ L[1].Rounds # <<>>
        /\ L[1].FinalTotal = 0 /\ L[1].RoundTotal = 0
        /\ L[2].Team.Name = "Beta" /\ L[2].Rounds = <<>>

\* C15: for the division with competition_rounds = 2, team A with averages
\* 80, 70, 90, 85 in rounds 0..3 and team B with 75 in round 0, the returned
\* ladder lists B first with RoundTotal 75 and FinalTotal 0, then A with
\* BestRound 90, RoundTotal 170, BestFinal 85 and FinalTotal 165 (hundredths).
C15_Scenario ==
  (lteams \in ScenarioTeams /\ lscores \in ScenarioScores /\ lres.err = <<>>) =>
    /\ Len(lres.ladders) = 1
    /\ LET L == lres.ladders[1].Ladder
       IN /\ Len(L) = 2
          /\ L[1].Team.Id = "t2" /\ L[2].Team.Id = "t1"
          /\ L[1].InterviewScore = 7500 /\ L[1].RoundTotal = 7500 /\ L[1].FinalTotal = 0
          /\ L[2].InterviewScore = 8000 /\ L[2].BestRound = 9000
          /\ L[2].RoundTotal = 17000
          /\ L[2].BestFinal = 8500 /\ L[2].FinalTotal = 16500

C15_Witness ==
  /\ lteams \in ScenarioTeams /\ lscores \in ScenarioScores /\ lres.err = <<>>
  /\ lteams[1].ID = "t1"
  /\ lres.ladders[1].Ladder[2].FinalTotal = 16500

\* The averages of an entry's rounds that lie in a set of round numbers, and
\* the greatest of them, 0 if there is none.
AveragesIn(e, R) == {e.Rounds[k].Average : k \in {k \in 1..Len(e.Rounds) : e.Rounds[k].Round \in R}}
MaxOrZero(S) == IF S = {} THEN 0 ELSE SetMax(S)
CompetitionRoundsOf(e) == lteams[PosIn(lteams, e.Team.Id)].CompetitionRounds

\* C19: every entry's BestRound is the greatest average of the team's rounds
\* r with 1 <= r <= competition_rounds, and 0 if the team has no such round.
C19_BestRound ==
  \A e \in Entries :
    e.BestRound = MaxOrZero(AveragesIn(e, 1..CompetitionRoundsOf(e)))

\* C20: every entry's BestFinal is the greatest average of the team's rounds
\* r with r > competition_rounds, and 0 if the team has no such round.
C20_BestFinal ==
  \A e \in Entries :
    e.BestFinal =
      MaxOrZero(AveragesIn(e, {r \in Rounds \cup {MaxRound + 1} : r > CompetitionRoundsOf(e)}))

\* C18: the commit of an UpdateScoreSheet leaves the division, template,
\* author, round and created_at of every score_sheets row as they were, also
\* when the mutator has overwritten them in the object.
ImmutableColumns(row) ==
  [division |-> row.division, template |-> row.template, author |-> row.author,
   round |-> row.round, created_at |-> row.created_at]
C18_UpdateWritesMutableOnly ==
  [][\A p \in Procs :
       (op[p].kind = "update" /\ pc[p] = "u_commit" /\ pc'[p] = "f_run") =>
         /\ DOMAIN sheets' = DOMAIN sheets
         /\ \A i \in DOMAIN sheets :
              ImmutableColumns(sheets'[i]) = ImmutableColumns(sheets[i])]_vars

C18_Witness ==
  \E p \in Procs :
    /\ op[p].kind = "update" /\ note[p].committed /\ Done(p)
    /\ op[p].id \in DOMAIN sheets
    /\ sheets[op[p].id].comments = HeaderRewrite.comments
    /\ ImmutableColumns(sheets[op[p].id]) = ImmutableColumns(InsertHeader(<<>>, 1, SeedSheet)[1])

\* C16: a serialization failure never ends a CreateScoreSheet or an
\* UpdateScoreSheet: the closure is run again from its start, so no finished
\* call has returned the failure, and the mutator has been invoked at most
\* once in every run of the closure.
SerializationFailure(r) == \E i \in 1..Len(r.err) : r.err[i] = ErrRetry
C16_ConflictRerunsClosure ==
  \A p \in Procs :
    /\ note[p].mut <= note[p].runs
    /\ (Done(p) /\ op[p].kind \in {"create", "update"}) => ~SerializationFailure(ret[p])

\* C17: every CreateScoreSheet and UpdateScoreSheet call that has begun its
\* transaction eventually returns, with a committed sheet or with an error,
\* however often the store answers with a serialization failure.
InTransaction(p) == pc[p] \in {"c_tx", "c_commit", "u_tx", "u_commit"}
C17_RetryTerminates ==
  \A p \in Procs : InTransaction(p) ~> pc[p] = "done"

\* C30: two FetchDanceLadders calls that received the same rows in the same
\* order and both returned ladders returned the same list: the same division
\* ladders in the same order, each with the same entries in the same order.
C30_LaddersDeterministic ==
  (lprev.err = <<>> /\ lres.err = <<>>) => lres.ladders = lprev.ladders

\* The rows of a team as the scores query returned them, averages unrounded.
RECURSIVE ExactList(_, _)
ExactList(scores, team) ==
  IF scores = <<>> THEN <<>>
  ELSE LET row == Head(scores)
           rest == ExactList(Tail(scores), team)
       IN IF row.Team = team THEN <<row>> \o rest ELSE rest

\* The interview sum and the best averages of a team taken over the unrounded
\* averages, the rounds chosen as the loop chooses them.
ExactTally(team) ==
  Tally(ExactList(lscores, team.ID), team.CompetitionRounds,
        [interview |-> 0, bestRound |-> 0, bestFinal |-> 0])

\* C22: rounding is applied once, to the reported values: every reported
\* interview score, best round, best final, round total and final total is the
\* rounding to two places of the value computed from the unrounded round
\* averages.
C22_RoundedOnce ==
  lres.err = <<>> =>
    \A e \in Entries : \A i \in 1..Len(lteams) :
      lteams[i].ID = e.Team.Id =>
        LET t == ExactTally(lteams[i]) IN
          /\ e.InterviewScore = Round2(t.interview)
          /\ e.BestRound = Round2(t.bestRound)
          /\ e.BestFinal = Round2(t.bestFinal)
          /\ e.RoundTotal = Round2(t.interview + t.bestRound)
          /\ e.FinalTotal = Round2(FinalTotalOf(t.interview, t.bestFinal))

\* The sheets of a team in a round, those without section rows included.
SheetsOf(team, r) ==
  {i \in 1..Len(ltable) : ltable[i].team = team /\ ltable[i].round = r}

\* C21: for every (team, round) with at least one sheet, the team's entry
\* carries exactly one round record: its average is the mean of the totals of
\* all the team's sheets of the round (reported to two places), its count the
\* number of those sheets; a sheet without section rows counts with total 0.
C21_RoundRecordPerSheetGroup ==
  lres.err = <<>> =>
    \A s \in 1..Len(ltable) : \A e \in Entries :
      e.Team.Id = ltable[s].team =>
        LET ids == SheetsOf(ltable[s].team, ltable[s].round)
            recs == {k \in 1..Len(e.Rounds) : e.Rounds[k].Round = ltable[s].round}
        IN /\ Cardinality(recs) = 1
           /\ \A k \in recs :
                /\ e.Rounds[k].Average =
                     Round2(SumTotals(ltable, ids) \div Cardinality(ids))
                /\ e.Rounds[k].Count = Cardinality(ids)

\* The rows of the scores query are the rows the query yields over the sheets.
ScoresFromTable ==
  {lscores[i] : i \in 1..Len(lscores)}
    = {ScoresQuery(ltable)[i] : i \in 1..Len(ScoresQuery(ltable))}

\* The commit of process p's transaction of the given kind.
Commits(p, kind) ==
  pc[p] \in {"c_commit", "u_commit"} /\ op[p].kind = kind /\ pc'[p] = "f_run"

\* C27: the commit of UpdateScoreSheet(id, mutator) leaves every section row
\* of every other sheet as it was, whatever row ids the mutator's section list
\* carries.
C27_UpdateKeepsOtherSheets ==
  [][\A p \in Procs :
       Commits(p, "update") =>
         \A r \in DOMAIN secs :
           secs[r].score_sheet # op[p].id => r \in DOMAIN secs' /\ secs'[r] = secs[r]]_vars

\* C28: the commit of a CreateScoreSheet call, whichever run of the closure it
\* ends, adds one header row and as many section rows as the mutator of that
\* run supplied, each referencing the new header; no other row changes, and
\* the id the final fetch is given is the id of the new header.
C28_CreateAddsOneSheet ==
  [][\A p \in Procs :
       Commits(p, "create") =>
         LET newS == DOMAIN sheets' \ DOMAIN sheets
             newR == DOMAIN secs' \ DOMAIN secs
         IN /\ Cardinality(newS) = 1
            /\ Cardinality(newR) = Len(obj[p][1].Sections)
            /\ \A r \in newR : secs'[r].score_sheet \in newS
            /\ \A i \in DOMAIN sheets : sheets'[i] = sheets[i]
            /\ \A r \in DOMAIN secs : secs'[r] = secs[r]
            /\ FetchId(p)' \in newS]_vars

\* A create has committed in its second run or a later one and has returned
\* the sheet of the header that run inserted.
C28_Witness ==
  \E p \in Procs :
    /\ Done(p) /\ op[p].kind = "create" /\ note[p].committed /\ note[p].runs >= 2
    /\ sid[p] \in DOMAIN sheets
    /\ ret[p].err = <<>> /\ ret[p].sheet # <<>> /\ ret[p].sheet[1].Id = sid[p]
    /\ Cardinality(RowsOfSheet(secs, sid[p])) = 2

C24_FailureCancelsSibling ==
  \A t, u \in FanTasks :
    (ftask[u].pos = "failed" /\ ftask[t].pos \in {"start", "call"} /\ ~fret.joined) =>
      /\ fgroup.cancelled
      /\ CurStep(t).ctx = "group"
      /\ ENABLED FanJoin

\* C26: no two tasks have a query in flight on the same transaction.
C26_NoSharedTransaction ==
  \A t, u \in FanTasks :
    (t # u /\ ftask[t].pos = "call" /\ ftask[u].pos = "call") =>
      ~(CurStep(t).handle = "tx" /\ CurStep(u).handle = "tx")

\* C25: every assignment a task makes is made either to a variable no other
\* task assigns to or while the task holds the mutex, and the function reads
\* the variables only once every task has returned.
C25_WritesIsolatedOrLocked ==
  /\ \A w \in fwrites :
       \/ w.locked
       \/ \A v \in fwrites : v.slot = w.slot => v.task = w.task
  /\ fret.joined => \A t \in FanTasks : Terminal(t)

\* GetDivision has returned div, scoreSheetTemplates and teams, assigned by
\* its two tasks without a mutex.
C25_Witness ==
  /\ fret.joined /\ fcall.fn = "GetDivision"
  /\ fret.results = {"div", "scoreSheetTemplates", "teams"}
  /\ {w.task : w \in fwrites} = FanTasks
  /\ \A w \in fwrites : ~w.locked

\* A step of a task that has its query's result, or of the coordinator.
FanProgress ==
  \/ \E t \in FanTasks : TaskLock(t) \/ TaskWrite(t) \/ TaskReturn(t)
  \/ FanJoin

\* C29: the mutex is unlocked only by the task holding it, a task that has
\* returned (with an error or without) does not hold it, and once no store
\* query is outstanding some task or the join can step, up to the join's
\* return with the mutex free.
C29_MutexReleased ==
  /\ ~fbad
  /\ \A t \in FanTasks : Terminal(t) => fmutex # t
  /\ fmutex # 0 => ftask[fmutex].pos \in {"write", "return"}
  /\ (fcall # NoFan /\ ~fret.joined
        /\ \A t \in FanTasks : ftask[t].pos \notin {"start", "call"})
       => ENABLED FanProgress
  /\ fret.joined => fmutex = 0

\* Both queries of FetchScoreSheet returned rows, both tasks assigned under
\* the mutex, and the join returned with the mutex free.
C29_Witness ==
  /\ fret.joined /\ fcall.fn = "FetchScoreSheet" /\ fret.err = <<>>
  /\ fret.results = {"scoreSheet", "sections"}
  /\ \A w \in fwrites : w.locked
  /\ fmutex = 0

\* One task of FetchScoreSheet waits in Lock while the other holds the mutex.
C29_Contended ==
  \E t, u \in FanTasks : ftask[t].pos = "lock" /\ fmutex = u /\ u # t

====
